---- MODULE Spec2Model ----
(***************************************************************************)
(* Model of src/bin/part2.rs: the crane puzzle.  A text describing stacks  *)
(* of single characters is parsed into `Stacks`, a text of move            *)
(* instructions is parsed into `CraneInstructions`, the instructions are   *)
(* applied in order and the top of every stack is reported.                *)
(*                                                                         *)
(* A text (`&str`) is a sequence of characters; a character is a string of *)
(* length one.  A method of the source becomes an operator that yields a   *)
(* record with the returned value (`ret`) and the receiver after the call  *)
(* (`self`).  A `Result` is a record with a `kind`: "Ok", or the name of   *)
(* the error variant.                                                      *)
(***************************************************************************)
EXTENDS Integers, Sequences, FiniteSets, TLC

(***************************************************************************)
(* Bounds of the checked instances.                                        *)
(***************************************************************************)
\* most stacks (lines) of a generated layout
MaxStacks == 2
\* most items on one stack of a generated layout
MaxHeight == 2
\* largest count of a generated instruction
MaxCount == 2
\* most instructions of a generated batch
MaxBatch == 2
\* most calls of tops_string on one final collection
MaxTopsCalls == 2

(***************************************************************************)
(* usize.  Rust guarantees only that usize has at least 16 bits; the model *)
(* takes that smallest width, the one in which a wrapped index is closest  *)
(* to the length of a collection.                                          *)
(***************************************************************************)
UsizeModulus == 65536

\* a - b computed on usize by a build without overflow checks
wrapping_sub(a, b) == (a - b + UsizeModulus) % UsizeModulus

(***************************************************************************)
(* Text: str::lines, str::split_ascii_whitespace, str::parse.              *)
(***************************************************************************)
AsciiWhitespace == {" ", "\t", "\n", "\r", "\f"}

Digits == <<"0", "1", "2", "3", "4", "5", "6", "7", "8", "9">>

IsDigit(c) == \E d \in 1..10 : Digits[d] = c

DigitValue(c) == (CHOOSE d \in 1..10 : Digits[d] = c) - 1

\* the text up to (not including) the first character of the set, or all of it
RECURSIVE TakeUntil(_, _)
TakeUntil(s, stop) ==
    IF s = <<>> \/ Head(s) \in stop THEN <<>>
    ELSE <<Head(s)>> \o TakeUntil(Tail(s), stop)

\* the text from the first character that is not in the set
RECURSIVE SkipWhile(_, _)
SkipWhile(s, skip) ==
    IF s = <<>> \/ Head(s) \notin skip THEN s
    ELSE SkipWhile(Tail(s), skip)

\* a line without the carriage return before its line end
StripCr(line) ==
    IF line # <<>> /\ line[Len(line)] = "\r" THEN SubSeq(line, 1, Len(line) - 1)
    ELSE line

\* str::lines: the lines of a text; a final line end starts no further line,
\* and a carriage return is dropped only in front of a line end
RECURSIVE lines(_)
lines(s) ==
    IF s = <<>> THEN <<>>
    ELSE LET first == TakeUntil(s, {"\n"})
             rest == SubSeq(s, Len(first) + 2, Len(s))
         IN  <<IF Len(first) < Len(s) THEN StripCr(first) ELSE first>> \o lines(rest)

\* str::split_ascii_whitespace: the maximal runs of non-whitespace characters
RECURSIVE split_ascii_whitespace(_)
split_ascii_whitespace(s) ==
    LET t == SkipWhile(s, AsciiWhitespace)
    IN  IF t = <<>> THEN <<>>
        ELSE LET tok == TakeUntil(t, AsciiWhitespace)
             IN  <<tok>> \o split_ascii_whitespace(SubSeq(t, Len(tok) + 1, Len(t)))

\* the value of a sequence of decimal digits, -1 once it leaves usize
RECURSIVE DigitsValue(_, _)
DigitsValue(ds, acc) ==
    IF acc < 0 \/ ds = <<>> THEN acc
    ELSE LET v == acc * 10 + DigitValue(Head(ds))
         IN  DigitsValue(Tail(ds), IF v >= UsizeModulus THEN -1 ELSE v)

\* str::parse::<usize>: an optional "+", then one or more decimal digits
parse_usize(tok) ==
    LET ds == IF tok # <<>> /\ Head(tok) = "+" THEN Tail(tok) ELSE tok
        v == DigitsValue(ds, 0)
    IN  IF ds # <<>> /\ (\A i \in 1..Len(ds) : IsDigit(ds[i])) /\ v >= 0
        THEN [kind |-> "Ok", ret |-> v]
        ELSE [kind |-> "ParseIntError", ret |-> 0]

\* a parse that takes the first character of any token that has one
parse_char_first(tok) ==
    IF Len(tok) >= 1 THEN [kind |-> "Ok", ret |-> tok[1]]
    ELSE [kind |-> "ParseCharError", ret |-> " "]

\* str::parse::<char>: exactly one character
parse_char(tok) ==
    IF Len(tok) = 1 THEN [kind |-> "Ok", ret |-> tok[1]]
    ELSE [kind |-> "ParseCharError", ret |-> " "]

(***************************************************************************)
(* Stack: a Vec<char>, the last element is the top.                        *)
(***************************************************************************)
len(self) == Len(self)

\* an emptiness test that is off by one
is_empty_off_by_one(self) == Len(self) = 1

is_empty(self) == Len(self) = 0

\* a pop that returns the top and leaves it on the stack
pop_without_removing(self) ==
    IF self = <<>> THEN [ret |-> " ", self |-> self]
    ELSE [ret |-> self[Len(self)], self |-> self]

\* Stack::pop: the top, or a blank when there is none
pop(self) ==
    IF self = <<>> THEN [ret |-> " ", self |-> self]
    ELSE [ret |-> self[Len(self)], self |-> SubSeq(self, 1, Len(self) - 1)]

\* a push that puts the item in the place of the top
push_replacing_top(self, v) ==
    IF self = <<>> THEN <<v>> ELSE [self EXCEPT ![Len(self)] = v]

\* Stack::push: the receiver after the call
push(self, v) == Append(self, v)

\* a get_last that removes the item it returns
get_last_removing(self) == pop(self)

\* Stack::get_last: the top, or a blank when there is none; takes &self
get_last(self) ==
    IF self = <<>> THEN [ret |-> " ", self |-> self]
    ELSE [ret |-> self[Len(self)], self |-> self]

\* Stack::from_str over the tokens from position i on, items collected so far
RECURSIVE StackTokens(_, _, _)
StackTokens(toks, i, items) ==
    IF i > Len(toks) THEN [kind |-> "Ok", ret |-> items]
    ELSE IF i = 1
         THEN IF parse_usize(toks[i]).kind = "Ok"
              THEN StackTokens(toks, i + 1, items)
              ELSE [kind |-> "InvalidId", ret |-> <<>>]
         ELSE IF parse_char(toks[i]).kind = "Ok"
              THEN StackTokens(toks, i + 1, Append(items, parse_char(toks[i]).ret))
              ELSE [kind |-> "InvalidChar", ret |-> <<>>]

\* a Stack::from_str that puts every item below the ones read before it
Stack_from_str_top_first(s) ==
    LET r == StackTokens(split_ascii_whitespace(s), 1, <<>>)
    IN  [kind |-> r.kind, ret |-> [k \in 1..Len(r.ret) |-> r.ret[Len(r.ret) + 1 - k]]]

\* impl FromStr for Stack
Stack_from_str(s) == StackTokens(split_ascii_whitespace(s), 1, <<>>)

\* Stacks::from_str over the lines from position i on, stacks collected so far
RECURSIVE StacksLines(_, _, _)
StacksLines(ls, i, out) ==
    IF i > Len(ls) THEN [kind |-> "Ok", ret |-> out]
    ELSE LET parse_result == Stack_from_str(ls[i])
         IN  IF parse_result.kind = "Ok"
             THEN StacksLines(ls, i + 1, Append(out, parse_result.ret))
             ELSE [kind |-> parse_result.kind, ret |-> <<>>]

\* impl FromStr for Stacks
Stacks_from_str(s) == StacksLines(lines(s), 1, <<>>)

(***************************************************************************)
(* CraneInstruction and CraneInstructions.                                 *)
(***************************************************************************)
\* a CraneInstruction built with source and destination exchanged
CraneInstruction_swapped(n, f, t) ==
    [num_to_move |-> n, from_stack |-> t, to_stack |-> f]

\* struct CraneInstruction
CraneInstruction(n, f, t) == [num_to_move |-> n, from_stack |-> f, to_stack |-> t]

\* CraneInstruction::from_str over the tokens from position i (0-based) on
RECURSIVE InstructionTokens(_, _, _)
InstructionTokens(slices, i, vals) ==
    IF i >= Len(slices)
    THEN [kind |-> "Ok", ret |-> CraneInstruction(vals[1], vals[2], vals[3])]
    ELSE IF i % 2 = 1
         THEN IF parse_usize(slices[i + 1]).kind = "Ok"
              THEN InstructionTokens(slices, i + 1, Append(vals, parse_usize(slices[i + 1]).ret))
              ELSE [kind |-> "InvalidInstruction", ret |-> CraneInstruction(0, 0, 0)]
         ELSE InstructionTokens(slices, i + 1, vals)

\* impl FromStr for CraneInstruction
CraneInstruction_from_str(s) ==
    LET slices == split_ascii_whitespace(s)
    IN  IF Len(slices) # 6
        THEN [kind |-> "InvalidInstruction", ret |-> CraneInstruction(0, 0, 0)]
        ELSE InstructionTokens(slices, 0, <<>>)

\* CraneInstructions::from_str over the lines from position i on; the three
\* numbers are parsed and then unwrapped, so a token that is no number panics
RECURSIVE InstructionsLines(_, _, _)
InstructionsLines(ls, i, out) ==
    IF i > Len(ls) THEN [kind |-> "Ok", ret |-> out]
    ELSE LET line_parts == split_ascii_whitespace(ls[i])
         IN  IF Len(line_parts) # 6
             THEN [kind |-> "InvalidInstruction", ret |-> <<>>]
             ELSE LET move_count == parse_usize(line_parts[2])
                      orig_stack == parse_usize(line_parts[4])
                      target_stack == parse_usize(line_parts[6])
                  IN  IF move_count.kind = "Ok" /\ orig_stack.kind = "Ok"
                         /\ target_stack.kind = "Ok"
                      THEN InstructionsLines(ls, i + 1,
                               Append(out, CraneInstruction(move_count.ret,
                                                            orig_stack.ret,
                                                            target_stack.ret)))
                      ELSE [kind |-> "Panic", ret |-> <<>>]

\* impl FromStr for CraneInstructions
CraneInstructions_from_str(s) == InstructionsLines(lines(s), 1, <<>>)

(***************************************************************************)
(* Stacks: a Vec<Stack>; position i of the source is element i + 1 here.   *)
(***************************************************************************)
\* Vec::get_mut(index) is Some
has_index(self, index) == index + 1 \in 1..Len(self)

\* label - 1 on usize: a build with overflow checks panics on label 0, a build
\* without them wraps
sub_one(label, overflow_checks) ==
    IF label >= 1 THEN [kind |-> "Ok", ret |-> label - 1]
    ELSE IF overflow_checks THEN [kind |-> "Panic", ret |-> 0]
    ELSE [kind |-> "Ok", ret |-> wrapping_sub(label, 1)]

\* a pop loop that tests its count after the turn, so that it takes an item
\* also when the count is 0
RECURSIVE pop_loop_at_least_once(_, _, _)
pop_loop_at_least_once(active_stack, tmp_stack, n) ==
    LET p == pop(active_stack)
    IN  IF n <= 1
        THEN [active_stack |-> p.self, tmp_stack |-> Append(tmp_stack, p.ret)]
        ELSE pop_loop_at_least_once(p.self, Append(tmp_stack, p.ret), n - 1)

\* for _ in 0..move_num { tmp_stack.push(active_stack.pop()) }
RECURSIVE pop_loop(_, _, _)
pop_loop(active_stack, tmp_stack, n) ==
    IF n = 0 THEN [active_stack |-> active_stack, tmp_stack |-> tmp_stack]
    ELSE LET p == pop(active_stack)
         IN  pop_loop(p.self, Append(tmp_stack, p.ret), n - 1)

\* a push loop that takes the items of tmp_stack from the front, in the order
\* they were removed
RECURSIVE push_loop_removal_order(_, _, _)
push_loop_removal_order(active_stack, tmp_stack, n) ==
    IF n = 0 THEN [active_stack |-> active_stack, tmp_stack |-> tmp_stack]
    ELSE push_loop_removal_order(push(active_stack, Head(tmp_stack)),
                                 Tail(tmp_stack), n - 1)

\* for _ in 0..move_num { active_stack.push(tmp_stack.pop().unwrap()) }
RECURSIVE push_loop(_, _, _)
push_loop(active_stack, tmp_stack, n) ==
    IF n = 0 THEN [active_stack |-> active_stack, tmp_stack |-> tmp_stack]
    ELSE push_loop(push(active_stack, tmp_stack[Len(tmp_stack)]),
                   SubSeq(tmp_stack, 1, Len(tmp_stack) - 1), n - 1)

\* Stacks::apply_instruction: the result kind and the collection as it is when
\* the call returns
apply_instruction(self, instruction, overflow_checks) ==
    LET start_index == sub_one(instruction.from_stack, overflow_checks)
        end_index == sub_one(instruction.to_stack, overflow_checks)
        move_num == instruction.num_to_move
    IN  IF start_index.kind = "Panic" \/ end_index.kind = "Panic"
        THEN [kind |-> "Panic", self |-> self]
        ELSE IF ~has_index(self, start_index.ret)
        THEN [kind |-> "IndexError", self |-> self]
        ELSE IF move_num > len(self[start_index.ret + 1])
        THEN [kind |-> "EmptyStack", self |-> self]
        ELSE LET popped == pop_loop(self[start_index.ret + 1], <<>>, move_num)
                 taken == [self EXCEPT ![start_index.ret + 1] = popped.active_stack]
             IN  IF ~has_index(taken, end_index.ret)
                 THEN [kind |-> "IndexError", self |-> taken]
                 ELSE [kind |-> "Ok",
                       self |-> [taken EXCEPT ![end_index.ret + 1] =
                                    push_loop(taken[end_index.ret + 1],
                                              popped.tmp_stack,
                                              move_num).active_stack]]

\* Stacks::tops_string: takes &self
tops_string(self) ==
    IF \E i \in 1..Len(self) : is_empty(self[i])
    THEN [kind |-> "EmptyStack", ret |-> <<>>, self |-> self]
    ELSE [kind |-> "Ok",
          ret |-> [i \in 1..Len(self) |-> get_last(self[i]).ret],
          self |-> [i \in 1..Len(self) |-> get_last(self[i]).self]]

(***************************************************************************)
(* The inputs.  An input text is written from its lines, a line from its   *)
(* tokens: the tokens of a line are joined by one blank, the lines by one  *)
(* line end.                                                               *)
(***************************************************************************)
\* the decimal digits of a number
RECURSIVE ToDigits(_)
ToDigits(n) ==
    IF n < 10 THEN <<Digits[n + 1]>>
    ELSE ToDigits(n \div 10) \o <<Digits[(n % 10) + 1]>>

\* the texts of a sequence, with a separator between each two
RECURSIVE Join(_, _)
Join(parts, sep) ==
    IF parts = <<>> THEN <<>>
    ELSE IF Len(parts) = 1 THEN parts[1]
    ELSE parts[1] \o sep \o Join(Tail(parts), sep)

\* the text of a sequence of lines of tokens
RenderText(token_lines) ==
    Join([i \in 1..Len(token_lines) |-> Join(token_lines[i], <<" ">>)], <<"\n">>)

\* the sequences over a set, up to a length
SeqsUpTo(S, n) == UNION {[1..k -> S] : k \in 0..n}

\* the line "<label> <item> ... <item>" of a stack
StackLine(label, items) ==
    <<ToDigits(label)>> \o [k \in 1..Len(items) |-> <<items[k]>>]

\* the line "move <count> from <source> to <destination>"
InstructionLine(n, f, t) ==
    << <<"m", "o", "v", "e">>, ToDigits(n), <<"f", "r", "o", "m">>, ToDigits(f),
       <<"t", "o">>, ToDigits(t) >>

Letters ==
    <<"A", "B", "C", "D", "E", "F", "G", "H", "I", "J", "K", "L", "M",
      "N", "O", "P", "Q", "R", "S", "T", "U", "V", "W", "X", "Y", "Z">>

\* the item at height k of stack i of a generated layout: every item of a
\* layout is another letter, so that an item out of place shows
ItemAt(i, k) == Letters[(((i - 1) * MaxHeight + (k - 1)) % 26) + 1]

\* the layouts of up to MaxStacks stacks of up to MaxHeight items, line i
\* labelled i
LayoutInputs ==
    {[i \in 1..Len(heights) |->
         StackLine(i, [k \in 1..heights[i] |-> ItemAt(i, k)])] :
        heights \in SeqsUpTo(0..MaxHeight, MaxStacks)}

\* the instructions with a count up to MaxCount and labels from 0 to one past
\* the largest label of a generated layout
InstructionInputs ==
    {InstructionLine(n, f, t) :
        n \in 0..MaxCount, f \in 0..(MaxStacks + 1), t \in 0..(MaxStacks + 1)}

\* the batches of up to `most` generated instructions
BatchInputs(most) == SeqsUpTo(InstructionInputs, most)

\* the example of the puzzle: stacks 1 Z N / 2 M C D / 3 P and four moves
ExampleLayout ==
    << StackLine(1, <<"Z", "N">>), StackLine(2, <<"M", "C", "D">>),
       StackLine(3, <<"P">>) >>

ExampleBatch ==
    << InstructionLine(1, 2, 1), InstructionLine(3, 1, 3),
       InstructionLine(2, 2, 1), InstructionLine(1, 1, 2) >>

\* layout lines for the parsers: a first token that is the position of the
\* line, another number or no number; items as in LayoutInputs, of which at
\* most one (the one at height `long`, none when 0) is written twice, as a
\* token of two characters
LabelTokenInputs == {<<"1">>, <<"1", "0">>, <<"x">>}

ParseLineInputs(i) ==
    {<<label>> \o [k \in 1..height |->
                      IF k = long THEN <<ItemAt(i, k), ItemAt(i, k)>>
                      ELSE <<ItemAt(i, k)>>] :
        label \in LabelTokenInputs, height \in 0..MaxHeight, long \in 0..MaxHeight}

\* the layouts of exactly n such lines
RECURSIVE ParseLayoutsOf(_)
ParseLayoutsOf(n) ==
    IF n = 0 THEN {<<>>}
    ELSE {Append(layout, line) :
             layout \in ParseLayoutsOf(n - 1), line \in ParseLineInputs(n)}

ParseLayoutInputs(most) == UNION {ParseLayoutsOf(n) : n \in 0..most}

ParseBatchInputs ==
    { <<>>,
      <<InstructionLine(1, 1, 2), InstructionLine(1, 2, 1)>> }

\* instruction lines CraneInstructions::from_str must reject: five tokens, seven
\* tokens, and a token that is no number where the count, the source or the
\* destination is expected
MalformedLineInputs ==
    { SubSeq(InstructionLine(1, 1, 2), 1, 5),
      Append(InstructionLine(1, 1, 2), <<"x">>),
      [InstructionLine(1, 1, 2) EXCEPT ![2] = <<"x">>],
      [InstructionLine(1, 1, 2) EXCEPT ![4] = <<"x">>],
      [InstructionLine(1, 1, 2) EXCEPT ![6] = <<"x">>],
      [InstructionLine(1, 1, 2) EXCEPT ![2] = <<"-", "1">>] }

\* such a line alone, or after a line that parses
MalformedBatchInputs ==
    {<<bad>> : bad \in MalformedLineInputs}
        \cup {<<InstructionLine(1, 2, 1), bad>> : bad \in MalformedLineInputs}

\* batches whose numbers have more than one digit, a leading zero, or a value
\* beyond usize
NumeralBatchInputs ==
    { << InstructionLine(12, 3, 10),
         [InstructionLine(0, 1, 2) EXCEPT ![2] = <<"0", "2">>] >>,
      << [InstructionLine(1, 1, 2) EXCEPT ![2] = ToDigits(UsizeModulus + 1)] >> }

\* a batch for the example whose first move asks for more than its source has
UnderflowBatch ==
    << InstructionLine(3, 1, 3), InstructionLine(1, 2, 1) >>

(***************************************************************************)
(* The program: main's run over the two halves of the input.               *)
(***************************************************************************)
VARIABLES
    layout_lines,       \* the lines of tokens the layout text was written from
    instruction_lines,  \* the lines of tokens the instruction text was written from
    stack_config,       \* main: the text before the blank line
    instructions_text,  \* main: the text after the blank line
    pc,                 \* the position of main
    stacks,             \* Stacks.stacks of the collection in use
    instructions,       \* CraneInstructions.instructions
    idx,                \* apply_instructions: the position of the loop
    output,             \* apply_instructions: the kind of `output`
    before,             \* the collection handed to the last apply_instruction
    tops,               \* the result of the last tops_string
    tops_calls,         \* the number of calls of tops_string so far
    parse_error,        \* the error of a failed parse
    stack,              \* a Stack whose methods are called directly
    last_call           \* the last direct call: method, receiver before, return

vars == <<layout_lines, instruction_lines, stack_config, instructions_text, pc,
          stacks, instructions, idx, output, before, tops, tops_calls, parse_error,
          stack, last_call>>

\* the Stack of the direct calls, which main does not touch
direct == <<stack, last_call>>

NoCall == [method |-> "None", receiver |-> <<>>, ret |-> " "]

inputs == <<layout_lines, instruction_lines, stack_config, instructions_text>>

NoTops == [kind |-> "None", ret |-> <<>>]

InitWith(layout, batch) ==
    /\ layout_lines = layout
    /\ instruction_lines = batch
    /\ stack_config = RenderText(layout)
    /\ instructions_text = RenderText(batch)
    /\ pc = "parse_stacks"
    /\ stacks = <<>>
    /\ instructions = <<>>
    /\ idx = 0
    /\ output = "None"
    /\ before = <<>>
    /\ tops = NoTops
    /\ tops_calls = 0
    /\ parse_error = "None"
    /\ stack = <<>>
    /\ last_call = NoCall

\* a generated layout with at most one generated instruction, or the example
\* with one of its batches
Init ==
    \/ \E layout \in LayoutInputs, batch \in BatchInputs(1) :
          InitWith(layout, batch)
    \/ \E batch \in {ExampleBatch, UnderflowBatch} : InitWith(ExampleLayout, batch)

\* main: stack_config.parse()
ParseStacks ==
    /\ pc = "parse_stacks"
    /\ LET r == Stacks_from_str(stack_config)
       IN  IF r.kind = "Ok"
           THEN /\ stacks' = r.ret
                /\ pc' = "parse_instructions"
                /\ UNCHANGED parse_error
           ELSE /\ parse_error' = r.kind
                /\ pc' = "failed"
                /\ UNCHANGED stacks
    /\ UNCHANGED <<direct, inputs, instructions, idx, output, before, tops, tops_calls>>

\* main: instructions.parse(), then the entry of apply_instructions; an unwrap
\* of a number that did not parse ends the program
ParseInstructions ==
    /\ pc = "parse_instructions"
    /\ LET r == CraneInstructions_from_str(instructions_text)
       IN  IF r.kind = "Ok"
           THEN /\ instructions' = r.ret
                /\ idx' = 1
                /\ output' = "Ok"
                /\ pc' = "apply"
                /\ UNCHANGED parse_error
           ELSE /\ parse_error' = r.kind
                /\ pc' = IF r.kind = "Panic" THEN "panicked" ELSE "failed"
                /\ UNCHANGED <<instructions, idx, output>>
    /\ UNCHANGED <<direct, inputs, stacks, before, tops, tops_calls>>

\* a loop that walks the batch from its end
next_instr_from_end(batch, i) == batch[Len(batch) - i + 1]

\* for instr in &instructions.instructions: the instruction of a position
next_instr(batch, i) == batch[i]

\* apply_instructions: one turn of the loop with `output` Ok
ApplyInstruction ==
    /\ pc = "apply"
    /\ idx <= Len(instructions)
    /\ output = "Ok"
    /\ \E overflow_checks \in BOOLEAN :
          LET r == apply_instruction(stacks, next_instr(instructions, idx),
                                     overflow_checks)
          IN  /\ before' = stacks
              /\ stacks' = r.self
              /\ output' = r.kind
              /\ idx' = idx + 1
              /\ pc' = IF r.kind = "Panic" THEN "panicked" ELSE "apply"
    /\ UNCHANGED <<direct, inputs, instructions, tops, tops_calls, parse_error>>

\* apply_instructions: one turn of the loop with `output` an error
ApplyAbort ==
    /\ pc = "apply"
    /\ idx <= Len(instructions)
    /\ output # "Ok"
    /\ pc' = "returned"
    /\ UNCHANGED <<direct, inputs, stacks, instructions, idx, output, before, tops,
                   tops_calls, parse_error>>

\* apply_instructions: the end of the loop
ApplyReturn ==
    /\ pc = "apply"
    /\ idx > Len(instructions)
    /\ pc' = "returned"
    /\ UNCHANGED <<direct, inputs, stacks, instructions, idx, output, before, tops,
                   tops_calls, parse_error>>

\* final_state.tops_string(); the call can be repeated on the same collection
TopsString ==
    /\ pc \in {"returned", "summarised"}
    /\ output = "Ok"
    /\ tops_calls < MaxTopsCalls
    /\ tops_calls' = tops_calls + 1
    /\ LET r == tops_string(stacks)
       IN  /\ tops' = [kind |-> r.kind, ret |-> r.ret]
           /\ stacks' = r.self
    /\ pc' = "summarised"
    /\ UNCHANGED <<direct, inputs, instructions, idx, output, before, parse_error>>

Next ==
    \/ ParseStacks
    \/ ParseInstructions
    \/ ApplyInstruction
    \/ ApplyAbort
    \/ ApplyReturn
    \/ TopsString

Spec == Init /\ [][Next]_vars

\* the same program over the generated layouts and the generated batches
InitBatch ==
    \E layout \in LayoutInputs, batch \in BatchInputs(MaxBatch) :
        InitWith(layout, batch)

SpecBatch == InitBatch /\ [][Next]_vars

\* the same program over the inputs for the parsers
InitParse ==
    \/ \E layout \in ParseLayoutInputs(MaxStacks), batch \in ParseBatchInputs :
          InitWith(layout, batch)
    \/ \E batch \in MalformedBatchInputs \cup NumeralBatchInputs :
          InitWith(ExampleLayout, batch)

SpecParse == InitParse /\ [][Next]_vars


(***************************************************************************)
(* The methods of Stack called directly on one Stack, as a test does: the  *)
(* Stack starts as any stack of up to MaxHeight generated items (the       *)
(* contents a parsed line gives) and grows by push up to MaxPushes above   *)
(* that.                                                                   *)
(***************************************************************************)
\* most pushes above MaxHeight in the direct calls
MaxPushes == 2

main_state == <<layout_lines, instruction_lines, stack_config, instructions_text,
                pc, stacks, instructions, idx, output, before, tops, tops_calls,
                parse_error>>

InitStack ==
    /\ \E items \in SeqsUpTo({ItemAt(1, k) : k \in 1..MaxHeight}, MaxHeight) :
          stack = items
    /\ last_call = NoCall
    /\ layout_lines = <<>>
    /\ instruction_lines = <<>>
    /\ stack_config = <<>>
    /\ instructions_text = <<>>
    /\ pc = "direct"
    /\ stacks = <<>>
    /\ instructions = <<>>
    /\ idx = 0
    /\ output = "None"
    /\ before = <<>>
    /\ tops = NoTops
    /\ tops_calls = 0
    /\ parse_error = "None"

CallLen ==
    /\ pc = "direct"
    /\ last_call' = [method |-> "len", receiver |-> stack, ret |-> len(stack)]
    /\ UNCHANGED <<stack, main_state>>

CallIsEmpty ==
    /\ pc = "direct"
    /\ last_call' = [method |-> "is_empty", receiver |-> stack, ret |-> is_empty(stack)]
    /\ UNCHANGED <<stack, main_state>>

CallPop ==
    /\ pc = "direct"
    /\ last_call' = [method |-> "pop", receiver |-> stack, ret |-> pop(stack).ret]
    /\ stack' = pop(stack).self
    /\ UNCHANGED main_state

CallPush ==
    /\ pc = "direct"
    /\ Len(stack) < MaxHeight + MaxPushes
    /\ \E v \in {ItemAt(1, k) : k \in 1..MaxHeight} :
          /\ last_call' = [method |-> "push", receiver |-> stack, ret |-> v]
          /\ stack' = push(stack, v)
    /\ UNCHANGED main_state

CallGetLast ==
    /\ pc = "direct"
    /\ last_call' = [method |-> "get_last", receiver |-> stack,
                     ret |-> get_last(stack).ret]
    /\ stack' = get_last(stack).self
    /\ UNCHANGED main_state

NextStack ==
    \/ CallLen
    \/ CallIsEmpty
    \/ CallPop
    \/ CallPush
    \/ CallGetLast

SpecStack == InitStack /\ [][NextStack]_vars

(***************************************************************************)
(* What the properties below speak of.                                     *)
(***************************************************************************)
Reverse(s) == [k \in 1..Len(s) |-> s[Len(s) + 1 - k]]

\* apply_instruction has been called and the collection is as it returned it
Called == pc \in {"apply", "returned", "panicked"} /\ idx >= 2

\* the instruction of the last call
LastInstruction == instructions[idx - 1]

\* the label names a stack of the collection handed to the last call
ValidLabel(label) == label \in 1..Len(before)

\* the top n items of a stack, deepest first
TopBlock(s, n) == SubSeq(s, Len(s) - n + 1, Len(s))

\* the collection handed to the last call without the top n items of its source
SourceTaken(n) ==
    [before EXCEPT ![LastInstruction.from_stack] =
        SubSeq(@, 1, Len(@) - n)]

\* the last call had valid labels and a count the source could serve
MoveCase ==
    /\ Called
    /\ ValidLabel(LastInstruction.from_stack)
    /\ ValidLabel(LastInstruction.to_stack)
    /\ LastInstruction.num_to_move <= Len(before[LastInstruction.from_stack])

\* C1: a move with valid labels and a count N within the source succeeds, the
\* source loses its top N items and the destination gains them in reversed
\* relative order (the item that was on top of the source lies deepest).
C1_MoveReversesBlock ==
    (MoveCase /\ LastInstruction.from_stack # LastInstruction.to_stack) =>
        LET n == LastInstruction.num_to_move
            block == TopBlock(before[LastInstruction.from_stack], n)
        IN  /\ output = "Ok"
            /\ stacks = [SourceTaken(n) EXCEPT ![LastInstruction.to_stack] =
                            @ \o Reverse(block)]

ExampleInput ==
    /\ stack_config = RenderText(ExampleLayout)
    /\ instructions_text = RenderText(ExampleBatch)

\* C3: on the example (stacks Z N / M C D / P; move 1 from 2 to 1, move 3 from
\* 1 to 3, move 2 from 2 to 1, move 1 from 1 to 2) nothing fails and the tops
\* are "MCD".
C3_ExampleTopsAreMCD ==
    ExampleInput =>
        /\ pc \notin {"failed", "panicked"}
        /\ pc \in {"returned", "summarised"} => output = "Ok" /\ idx = 5
        /\ pc = "summarised" => tops = [kind |-> "Ok", ret |-> <<"M", "C", "D">>]

\* C3's case: the example has run to its summary
C3_Witness == ExampleInput /\ pc = "summarised" /\ tops.kind = "Ok"

\* C4: a call with a valid source label and a count above the length of the
\* source fails with EmptyStack and leaves every stack as it was.
C4_UnderflowRejected ==
    ( /\ Called
      /\ ValidLabel(LastInstruction.from_stack)
      /\ LastInstruction.num_to_move > Len(before[LastInstruction.from_stack]) )
    => output = "EmptyStack" /\ stacks = before

\* a label above the labels of the collection handed to the last call
BeyondLabel(label) == label > Len(before)

\* C5: a call whose source label or destination label names no stack fails
\* with IndexError, whatever the count, also when the count is above the
\* length of a valid source.  Stated for the labels other than 0, whose
\* subtraction cannot overflow (label 0 is the case of C6).
C5_OutOfRangeRejected ==
    ( /\ Called
      /\ LastInstruction.from_stack >= 1
      /\ LastInstruction.to_stack >= 1
      /\ \/ BeyondLabel(LastInstruction.from_stack)
         \/ BeyondLabel(LastInstruction.to_stack) )
    => output = "IndexError"

\* C6: a call never panics: it returns a collection or a CraneError, and
\* IndexError for a label 0.
C6_NeverPanics ==
    /\ pc # "panicked"
    /\ Called =>
          /\ output \in {"Ok", "EmptyStack", "IndexError"}
          /\ (LastInstruction.from_stack = 0 \/ LastInstruction.to_stack = 0)
                => output = "IndexError"

\* apply_instruction applied to the instructions of a batch one after the
\* other from position i on, up to the first that does not succeed
RECURSIVE InOrder(_, _, _, _)
InOrder(state, batch, i, overflow_checks) ==
    IF i > Len(batch) THEN [kind |-> "Ok", self |-> state, applied |-> i - 1]
    ELSE LET r == apply_instruction(state, batch[i], overflow_checks)
         IN  IF r.kind = "Ok" THEN InOrder(r.self, batch, i + 1, overflow_checks)
             ELSE [kind |-> r.kind, self |-> r.self, applied |-> i]

\* the collection main hands to apply_instructions
ParsedStacks == Stacks_from_str(stack_config).ret

\* C7: apply_instructions ends as the instructions applied one by one in the
\* order of the batch end: with the collection after the last one when all
\* succeed, with the outcome of the first that does not succeed and no later
\* one applied otherwise; the empty batch returns the collection it was given.
C7_BatchAppliedInOrder ==
    pc \in {"returned", "panicked"} =>
        \E overflow_checks \in BOOLEAN :
            LET r == InOrder(ParsedStacks, instructions, 1, overflow_checks)
            IN  /\ output = r.kind
                /\ stacks = r.self
                /\ idx - 1 = r.applied

\* C7's case: two instructions succeeded whose order matters
C7_Witness ==
    /\ pc = "returned"
    /\ output = "Ok"
    /\ Len(instructions) = 2
    /\ idx = 3
    /\ LET r == InOrder(ParsedStacks, Reverse(instructions), 1, TRUE)
       IN  r.kind # "Ok" \/ r.self # stacks

\* C8: tops_string fails with EmptyStack exactly when some stack is empty;
\* otherwise it returns one character per stack, the i-th being the top of the
\* i-th stack, and never the blank.
C8_TopsString ==
    pc = "summarised" =>
        /\ tops.kind \in {"Ok", "EmptyStack"}
        /\ tops.kind = "EmptyStack" <=> (\E i \in 1..Len(stacks) : stacks[i] = <<>>)
        /\ tops.kind = "Ok" =>
              /\ Len(tops.ret) = Len(stacks)
              /\ \A i \in 1..Len(stacks) :
                    /\ tops.ret[i] = stacks[i][Len(stacks[i])]
                    /\ tops.ret[i] # " "

\* C8's case: the tops of two stacks of different heights were returned
C8_Witness ==
    /\ pc = "summarised"
    /\ tops.kind = "Ok"
    /\ Len(stacks) = 2
    /\ Len(stacks[1]) # Len(stacks[2])

\* C9: a call of tops_string changes no stack, and a second call on the same
\* collection returns what the first returned.
C9_TopsStringPure ==
    [][ /\ tops_calls' = tops_calls + 1 => stacks' = stacks
        /\ (tops_calls >= 1 /\ tops_calls' = tops_calls + 1) => tops' = tops ]_vars

\* C9's case: tops_string was called twice on a collection without an empty
\* stack
C9_Witness ==
    /\ tops_calls = 2
    /\ tops.kind = "Ok"
    /\ Len(stacks) >= 1

\* every line is a number followed by tokens of one character
WellFormedLayout ==
    \A i \in 1..Len(layout_lines) :
        LET line == layout_lines[i]
        IN  /\ Len(line) >= 1
            /\ Len(line[1]) >= 1
            /\ \A c \in 1..Len(line[1]) : IsDigit(line[1][c])
            /\ \A k \in 2..Len(line) : Len(line[k]) = 1

\* C10: a layout text whose every line is a numeric label followed by tokens
\* of one character parses to one stack per line, in the order of the lines,
\* each holding the items of its line in their order (first = bottom), whatever
\* the label.
C10_LayoutRoundTrip ==
    (WellFormedLayout /\ pc # "parse_stacks") =>
        /\ parse_error \notin {"InvalidId", "InvalidChar"}
        /\ pc = "parse_instructions" =>
              /\ Len(stacks) = Len(layout_lines)
              /\ \A i \in 1..Len(layout_lines) :
                    stacks[i] = [k \in 1..(Len(layout_lines[i]) - 1) |->
                                    layout_lines[i][k + 1][1]]

\* C10's case: two lines whose labels are not their positions, the first with
\* two different items
C10_Witness ==
    /\ pc = "parse_instructions"
    /\ WellFormedLayout
    /\ Len(layout_lines) = 2
    /\ layout_lines[1][1] = <<"1", "0">>
    /\ layout_lines[2][1] = <<"1">>
    /\ Len(stacks[1]) = 2
    /\ stacks[1][1] # stacks[1][2]

\* C14: on an empty stack pop returns the blank and leaves the stack empty and
\* get_last returns the blank; on a stack with items pop returns the last item
\* and removes it alone (the length goes down by one) and get_last returns the
\* last item; get_last changes no stack; is_empty is true exactly when len is 0.
C14_StackMethods ==
    LET r == last_call.receiver
    IN  /\ last_call.method = "pop" =>
              IF r = <<>>
              THEN last_call.ret = " " /\ stack = <<>>
              ELSE /\ last_call.ret = r[Len(r)]
                   /\ Len(stack) = Len(r) - 1
                   /\ stack = SubSeq(r, 1, Len(r) - 1)
        /\ last_call.method = "get_last" =>
              /\ stack = r
              /\ last_call.ret = IF r = <<>> THEN " " ELSE r[Len(r)]
        /\ last_call.method = "is_empty" =>
              /\ stack = r
              /\ last_call.ret = (len(r) = 0)
        /\ last_call.method = "len" =>
              /\ stack = r
              /\ last_call.ret = Len(r)

\* C14's case: pop was called on a stack emptied by pops
C14_Witness ==
    /\ last_call.method = "pop"
    /\ last_call.receiver = <<>>
    /\ last_call.ret = " "
    /\ stack = <<>>

\* a token that is one or more decimal digits
IsUnsigned(tok) == Len(tok) >= 1 /\ \A c \in 1..Len(tok) : IsDigit(tok[c])

\* token k of line i of the layout is not what its place asks for: the leading
\* token no unsigned integer, a content token not exactly one character
Offending(i, k) ==
    IF k = 1 THEN ~IsUnsigned(layout_lines[i][1])
    ELSE Len(layout_lines[i][k]) # 1

\* the places of the offending tokens of the layout
Offences ==
    {place \in UNION {{<<i, k>> : k \in 1..Len(layout_lines[i])} :
                         i \in 1..Len(layout_lines)} :
        Offending(place[1], place[2])}

\* the offending token met first when the layout is read line by line
FirstOffence ==
    CHOOSE a \in Offences :
        \A b \in Offences :
            a[1] < b[1] \/ (a[1] = b[1] /\ a[2] <= b[2])

\* the parse of the layout failed and gave no collection, nothing ran after it
LayoutRejected ==
    /\ pc = "failed"
    /\ stacks = <<>>
    /\ instructions = <<>>
    /\ output = "None"

\* C11 as stated: the parse of the layout fails with InvalidId when the leading
\* token of some line is no unsigned integer, and with InvalidChar when some
\* content token is not exactly one character; no collection is returned.
C11_LayoutRejectedByKind ==
    pc # "parse_stacks" =>
        /\ (\E a \in Offences : a[2] = 1) =>
              LayoutRejected /\ parse_error = "InvalidId"
        /\ (\E a \in Offences : a[2] > 1) =>
              LayoutRejected /\ parse_error = "InvalidChar"

\* C11: a layout with an offending token fails to parse with the error of the
\* offending token met first in reading order (InvalidId for a leading token,
\* InvalidChar for a content token), and no collection is returned, also when
\* lines before it parsed correctly.
C11_FirstOffenceRejected ==
    (pc # "parse_stacks" /\ Offences # {}) =>
        /\ LayoutRejected
        /\ parse_error = IF FirstOffence[2] = 1 THEN "InvalidId" ELSE "InvalidChar"

\* C11's case: the first line parsed to a stack of two items, the second has
\* a token of two characters and, after it in reading order, nothing else
C11_Witness ==
    /\ pc = "failed"
    /\ parse_error = "InvalidChar"
    /\ stacks = <<>>
    /\ Len(layout_lines) = 2
    /\ Stack_from_str(Join(layout_lines[1], <<" ">>)).kind = "Ok"
    /\ Len(layout_lines[1]) = 3
    /\ \E a \in Offences : a[1] = 2 /\ a[2] > 1

\* the layout parsed and the parse of the instructions is over
InstructionsParseOver ==
    /\ pc \notin {"parse_stacks", "parse_instructions"}
    /\ parse_error \notin {"InvalidId", "InvalidChar"}

\* line i of the instructions is not six tokens, or its token 1, 3 or 5 (from
\* 0) is no unsigned integer
MalformedLine(i) ==
    LET line == instruction_lines[i]
    IN  \/ Len(line) # 6
        \/ \E k \in {2, 4, 6} : ~IsUnsigned(line[k])

\* C12: a line that is not six tokens, or whose token 1, 3 or 5 is no
\* non-negative integer, is rejected with InvalidInstruction and never by a
\* crash, by CraneInstruction::from_str on the line and by
\* CraneInstructions::from_str on a batch that holds it.
C12_MalformedInstructionRejected ==
    \A i \in 1..Len(instruction_lines) :
        (InstructionsParseOver /\ MalformedLine(i)) =>
            /\ CraneInstruction_from_str(Join(instruction_lines[i], <<" ">>)).kind
                   = "InvalidInstruction"
            /\ pc = "failed"
            /\ parse_error = "InvalidInstruction"

\* the number a sequence of decimal digits writes
RECURSIVE Numeral(_)
Numeral(tok) ==
    IF tok = <<>> THEN 0
    ELSE 10 * Numeral(SubSeq(tok, 1, Len(tok) - 1)) + DigitValue(tok[Len(tok)])

\* every line of the instructions is six tokens, of which tokens 1, 3 and 5
\* (from 0) are non-negative integers that fit usize
WellFormedBatch ==
    \A i \in 1..Len(instruction_lines) :
        /\ Len(instruction_lines[i]) = 6
        /\ \A k \in {2, 4, 6} :
              /\ IsUnsigned(instruction_lines[i][k])
              /\ Numeral(instruction_lines[i][k]) < UsizeModulus

\* C13: a text whose every line is `move <count> from <source> to
\* <destination>` with three non-negative integers parses to one instruction
\* per line, in the order of the lines, instruction i with num_to_move = token
\* 1, from_stack = token 3 and to_stack = token 5 of line i.
C13_InstructionsParsed ==
    (InstructionsParseOver /\ WellFormedBatch) =>
        /\ parse_error = "None"
        /\ Len(instructions) = Len(instruction_lines)
        /\ \A i \in 1..Len(instruction_lines) :
              /\ instructions[i].num_to_move = Numeral(instruction_lines[i][2])
              /\ instructions[i].from_stack = Numeral(instruction_lines[i][4])
              /\ instructions[i].to_stack = Numeral(instruction_lines[i][6])

\* C13's case: two lines parsed, the first with numbers of two digits and a
\* source other than its destination, the second with a leading zero
C13_Witness ==
    /\ InstructionsParseOver
    /\ Len(instruction_lines) = 2
    /\ instruction_lines[2][2] = <<"0", "2">>
    /\ instructions = << [num_to_move |-> 12, from_stack |-> 3, to_stack |-> 10],
                         [num_to_move |-> 2, from_stack |-> 1, to_stack |-> 2] >>

\* C15: a call with count 0 and valid source and destination labels succeeds
\* and returns the collection it was given, every stack unchanged, also when
\* the source is empty.
C15_ZeroCountNoOp ==
    ( /\ Called
      /\ LastInstruction.num_to_move = 0
      /\ ValidLabel(LastInstruction.from_stack)
      /\ ValidLabel(LastInstruction.to_stack) )
    => output = "Ok" /\ stacks = before

\* C15's case: count 0 from an empty stack to another stack that has items
C15_Witness ==
    /\ Called
    /\ LastInstruction.num_to_move = 0
    /\ ValidLabel(LastInstruction.from_stack)
    /\ ValidLabel(LastInstruction.to_stack)
    /\ LastInstruction.from_stack # LastInstruction.to_stack
    /\ before[LastInstruction.from_stack] = <<>>
    /\ before[LastInstruction.to_stack] # <<>>
    /\ output = "Ok"

\* C16: a call that succeeds leaves the number of stacks as it was and every
\* stack other than the source and the destination as it was; when source and
\* destination differ, the source is shorter by the count and the destination
\* longer by the count.
C16_MoveFrame ==
    (Called /\ output = "Ok") =>
        LET n == LastInstruction.num_to_move
            from == LastInstruction.from_stack
            to == LastInstruction.to_stack
        IN  /\ Len(stacks) = Len(before)
            /\ \A i \in 1..Len(before) :
                  i \notin {from, to} => stacks[i] = before[i]
            /\ from # to =>
                  /\ Len(stacks[from]) = Len(before[from]) - n
                  /\ Len(stacks[to]) = Len(before[to]) + n

\* C16's case: items moved between two of three stacks, the third has items
C16_Witness ==
    /\ Called
    /\ output = "Ok"
    /\ Len(before) = 3
    /\ LastInstruction.num_to_move >= 1
    /\ LastInstruction.from_stack # LastInstruction.to_stack
    /\ \E i \in 1..3 :
          /\ i \notin {LastInstruction.from_stack, LastInstruction.to_stack}
          /\ before[i] # <<>>
          /\ stacks[i] = before[i]

\* the items of all stacks of a collection, stack after stack
RECURSIVE ItemsOf(_)
ItemsOf(collection) ==
    IF collection = <<>> THEN <<>>
    ELSE Head(collection) \o ItemsOf(Tail(collection))

\* how often an item occurs in a sequence of items
Occurrences(items, c) == Cardinality({k \in 1..Len(items) : items[k] = c})

\* two collections hold the same items, each as often
SameItems(a, b) ==
    LET ia == ItemsOf(a)
        ib == ItemsOf(b)
    IN  \A c \in {ia[k] : k \in 1..Len(ia)} \cup {ib[k] : k \in 1..Len(ib)} :
            Occurrences(ia, c) = Occurrences(ib, c)

\* C17: as long as every instruction applied so far succeeded, the collection
\* has as many stacks as the parsed one and holds the same items, each as
\* often; no item is made, lost or replaced by the blank.
C17_ItemsConserved ==
    (pc \in {"apply", "returned", "summarised"} /\ output = "Ok") =>
        /\ Len(stacks) = Len(ParsedStacks)
        /\ SameItems(stacks, ParsedStacks)
        /\ \A k \in 1..Len(ItemsOf(stacks)) : ItemsOf(stacks)[k] # " "

\* C17's case: two instructions that each moved items succeeded and left the
\* collection other than it was parsed
C17_Witness ==
    /\ pc = "returned"
    /\ output = "Ok"
    /\ idx = 3
    /\ instructions[1].num_to_move >= 1
    /\ instructions[2].num_to_move >= 1
    /\ stacks # ParsedStacks
    /\ ItemsOf(stacks) # <<>>

\* C18: a call whose source and destination are the same valid label, with a
\* count within that stack, succeeds and leaves that stack and the whole
\* collection as they were.
C18_SelfMoveNoOp ==
    (MoveCase /\ LastInstruction.from_stack = LastInstruction.to_stack) =>
        output = "Ok" /\ stacks = before

\* C18's case: two different items were taken from a stack and put back on it
C18_Witness ==
    /\ MoveCase
    /\ output = "Ok"
    /\ LastInstruction.from_stack = LastInstruction.to_stack
    /\ LastInstruction.num_to_move = 2
    /\ LET src == before[LastInstruction.from_stack]
       IN  src[Len(src)] # src[Len(src) - 1]
    /\ stacks = before

\* C19: a call that fails, with EmptyStack or with IndexError, returns with
\* the collection as it was before the call, no item taken from the source;
\* so apply_instructions aborts in the state the instructions before the
\* failing one left.  Stated for the labels other than 0, whose subtraction
\* cannot overflow (label 0 is the case of C6).
C19_FailureLeavesCollection ==
    ( /\ Called
      /\ LastInstruction.from_stack >= 1
      /\ LastInstruction.to_stack >= 1
      /\ output \in {"EmptyStack", "IndexError"} )
    => stacks = before

====
